---- MODULE Spec2Model ----
(***************************************************************************)
(* Salary pipeline of salary_brief: main.py loads a roster, computes the   *)
(* monthly salaries (salary_accounting.calculate_monthly_salaries), then   *)
(* the global and the per-subsidiary statistics.                           *)
(*                                                                         *)
(* Representation.                                                         *)
(*  - A Python dict whose iteration order matters (the roster, the salary  *)
(*    map, the subsidiary statistics) is a sequence of entries             *)
(*    [key |-> k, value |-> v] with pairwise distinct keys, in insertion   *)
(*    order.                                                               *)
(*  - An employee dict is a function whose DOMAIN is the set of keys that  *)
(*    are present; dict.get(k, d) is Get, dict.update({k: v}) is Update.   *)
(*  - Wage inputs (hourly_rate, weekly_hours_worked, contract_hours) are   *)
(*    numbers with a finite binary expansion, stored as the integer        *)
(*    Unit * x (Unit = 4: quarters).  A product of two inputs, and         *)
(*    everything computed from it, is stored as the integer                *)
(*    SalaryScale * x with SalaryScale = 2 * Unit * Unit, so that the      *)
(*    factor 1.5 stays exact.  On these values Python's float arithmetic   *)
(*    is exact, so the fixed-point arithmetic computes what the code       *)
(*    computes.  int(x) yields a whole number, stored as itself.           *)
(*  - An average (sum / len) is the exact fraction [num, den] in lowest    *)
(*    terms, den > 0.                                                      *)
(*                                                                         *)
(* Specifications.  Spec runs the pipeline on every roster of at most      *)
(* MaxSubsidiaries subsidiaries and MaxEmployees employees; SpecWages runs *)
(* it on the rosters of one employee, over the whole range of wages and    *)
(* every subset of the input keys.                                         *)
(***************************************************************************)
EXTENDS Integers, Sequences, FiniteSets, TLC

VARIABLES pc, employee_data, global_employee_salaries, global_statistics,
          subsidiary_statistics

vars == <<pc, employee_data, global_employee_salaries, global_statistics,
          subsidiary_statistics>>

(***************************************************************************)
(* Bounds of the model.                                                    *)
(***************************************************************************)
\* largest number of subsidiaries in a roster
MaxSubsidiaries == 2
\* largest number of employees in a roster, all subsidiaries together
MaxEmployees == 2
\* resolution of the wage inputs: they are multiples of 1/Unit
Unit == 4
\* wage inputs of the single-employee rosters range over -MaxWage..MaxWage (in 1/Unit)
MaxWage == 3

SalaryScale == 2 * Unit * Unit

(***************************************************************************)
(* Generic helpers.                                                        *)
(***************************************************************************)
Abs(n) == IF n < 0 THEN -n ELSE n

RECURSIVE GCD(_, _)
GCD(a, b) == IF b = 0 THEN a ELSE GCD(b, a % b)

RECURSIVE SeqsUpTo(_, _)
\* all sequences over S of length <= n
SeqsUpTo(S, n) ==
    IF n = 0 THEN {<<>>}
    ELSE LET shorter == SeqsUpTo(S, n - 1)
         IN shorter \cup {Append(s, x) : s \in shorter, x \in S}

Keys(d) == [i \in 1..Len(d) |-> d[i].key]

HasKey(d, k) == \E i \in 1..Len(d) : d[i].key = k

\* d[k] of an ordered dict
Lookup(d, k) == d[CHOOSE i \in 1..Len(d) : d[i].key = k].value

\* Store putting a new key first
StoreFirst(d, k, v) ==
    IF \E i \in 1..Len(d) : d[i].key = k
    THEN [i \in 1..Len(d) |-> IF d[i].key = k THEN [key |-> k, value |-> v] ELSE d[i]]
    ELSE <<[key |-> k, value |-> v]>> \o d

\* d[k] = v of an ordered dict: a new key goes last, an old key keeps its place
Store(d, k, v) ==
    IF HasKey(d, k)
    THEN [i \in 1..Len(d) |-> IF d[i].key = k THEN [key |-> k, value |-> v] ELSE d[i]]
    ELSE Append(d, [key |-> k, value |-> v])

(***************************************************************************)
(* dict.get and dict.update on an employee dict.                           *)
(***************************************************************************)
\* Get with 1 for an absent key, whatever the default asked for
GetOrOne(d, k, default) == IF k \in DOMAIN d THEN d[k] ELSE 1

Get(d, k, default) == IF k \in DOMAIN d THEN d[k] ELSE default

Update(d, k, v) == [x \in DOMAIN d \cup {k} |-> IF x = k THEN v ELSE d[x]]

\* int rounding down
intFloor(x) == x \div SalaryScale

(***************************************************************************)
(* Python's int() on a number stored at SalaryScale: truncation toward     *)
(* zero.                                                                   *)
(***************************************************************************)
int(x) == IF x >= 0 THEN x \div SalaryScale ELSE -((-x) \div SalaryScale)

\* MonthlySalary paying the contracted hours when there is no overtime
MonthlySalaryPaysContract(employee_details) ==
    LET hourly_rate == Get(employee_details, "hourly_rate", 0)
        weekly_hours_worked == Get(employee_details, "weekly_hours_worked", 0)
        contract_hours == Get(employee_details, "contract_hours", 0)
    IN IF weekly_hours_worked <= contract_hours
       THEN contract_hours * hourly_rate * 2 * 4
       ELSE (contract_hours * hourly_rate * 2
                + (weekly_hours_worked - contract_hours) * hourly_rate * 3) * 4

\* MonthlySalary paying overtime hours at the base rate
MonthlySalaryFlatOvertime(employee_details) ==
    LET hourly_rate == Get(employee_details, "hourly_rate", 0)
        weekly_hours_worked == Get(employee_details, "weekly_hours_worked", 0)
    IN weekly_hours_worked * hourly_rate * 2 * 4

\* MonthlySalary adding the salary to the one the record already holds
MonthlySalaryAccumulates(employee_details) ==
    LET hourly_rate == Get(employee_details, "hourly_rate", 0)
        weekly_hours_worked == Get(employee_details, "weekly_hours_worked", 0)
        contract_hours == Get(employee_details, "contract_hours", 0)
    IN Get(employee_details, "monthly_salary", 0)
         + (IF weekly_hours_worked <= contract_hours
            THEN weekly_hours_worked * hourly_rate * 2 * 4
            ELSE (contract_hours * hourly_rate * 2
                     + (weekly_hours_worked - contract_hours) * hourly_rate * 3) * 4)

(***************************************************************************)
(* salary_accounting.py:38-49, the unrounded monthly salary of one         *)
(* employee dict (stored at SalaryScale).                                  *)
(***************************************************************************)
MonthlySalary(employee_details) ==
    LET hourly_rate == Get(employee_details, "hourly_rate", 0)
        weekly_hours_worked == Get(employee_details, "weekly_hours_worked", 0)
        contract_hours == Get(employee_details, "contract_hours", 0)
        overtime_worked == weekly_hours_worked - contract_hours
        \* at SalaryScale a product a * b is 2 * a * b, and a * b * 1.5 is 3 * a * b
        overtime_salary == overtime_worked * hourly_rate * 3
        contract_salary == contract_hours * hourly_rate * 2
    IN IF weekly_hours_worked <= contract_hours
       THEN weekly_hours_worked * hourly_rate * 2 * 4
       ELSE (contract_salary + overtime_salary) * 4

RECURSIVE EmployeeLoopPrepends(_, _, _)
\* EmployeeLoop inserting each salary at the head of employee_list
EmployeeLoopPrepends(personnel_data, i, employee_list) ==
    IF i > Len(personnel_data)
    THEN [personnel_data |-> personnel_data, employee_list |-> employee_list,
          raised |-> FALSE]
    ELSE LET employee_details ==
                 Update(personnel_data[i], "monthly_salary",
                        MonthlySalary(personnel_data[i]))
             annotated == [personnel_data EXCEPT ![i] = employee_details]
         IN IF {"name", "job"} \subseteq DOMAIN employee_details
            THEN EmployeeLoopPrepends(annotated, i + 1,
                     <<[name |-> employee_details["name"],
                        job |-> employee_details["job"],
                        monthly_salary |-> int(employee_details["monthly_salary"])]>>
                     \o employee_list)
            ELSE [personnel_data |-> annotated, employee_list |-> employee_list,
                  raised |-> TRUE]

(***************************************************************************)
(* salary_accounting.py:35-57, the loop over one subsidiary's employees.   *)
(* Each record is annotated in place (line 52) before its name and job are *)
(* read (lines 55-56); a record without name or job raises KeyError there, *)
(* after its annotation.                                                   *)
(***************************************************************************)
RECURSIVE EmployeeLoop(_, _, _)
EmployeeLoop(personnel_data, i, employee_list) ==
    IF i > Len(personnel_data)
    THEN [personnel_data |-> personnel_data, employee_list |-> employee_list,
          raised |-> FALSE]
    ELSE LET employee_details ==
                 Update(personnel_data[i], "monthly_salary",
                        MonthlySalary(personnel_data[i]))
             annotated == [personnel_data EXCEPT ![i] = employee_details]
         IN IF {"name", "job"} \subseteq DOMAIN employee_details
            THEN EmployeeLoop(annotated, i + 1,
                     Append(employee_list,
                            [name |-> employee_details["name"],
                             job |-> employee_details["job"],
                             monthly_salary |-> int(employee_details["monthly_salary"])]))
            ELSE [personnel_data |-> annotated, employee_list |-> employee_list,
                  raised |-> TRUE]

(***************************************************************************)
(* salary_accounting.py:26-62, the loop over the roster's subsidiaries.    *)
(* Returns the roster as the call leaves it, the result dict, and whether  *)
(* the call raised.                                                        *)
(***************************************************************************)
RECURSIVE SubsidiaryLoop(_, _, _)
SubsidiaryLoop(data, s, employee_details_per_subsidiary) ==
    IF s > Len(data)
    THEN [employee_data |-> data, result |-> employee_details_per_subsidiary,
          raised |-> FALSE]
    ELSE LET subsidiary_names == data[s].key
             inner == EmployeeLoop(data[s].value, 1, <<>>)
             data1 == [data EXCEPT ![s].value = inner.personnel_data]
         IN IF inner.raised
            THEN [employee_data |-> data1, result |-> employee_details_per_subsidiary,
                  raised |-> TRUE]
            ELSE SubsidiaryLoop(data1, s + 1,
                     Store(employee_details_per_subsidiary, subsidiary_names,
                           inner.employee_list))

calculate_monthly_salaries(data) == SubsidiaryLoop(data, 1, <<>>)

(***************************************************************************)
(* sum, max, min, and sum / len of a list of whole numbers.                *)
(***************************************************************************)
RECURSIVE Sum(_)
Sum(xs) == IF xs = <<>> THEN 0 ELSE Head(xs) + Sum(Tail(xs))

\* Max taking the first salary
MaxFirst(xs) == xs[1]

Max(xs) == CHOOSE m \in {xs[i] : i \in 1..Len(xs)} : \A j \in 1..Len(xs) : xs[j] <= m

Min(xs) == CHOOSE m \in {xs[i] : i \in 1..Len(xs)} : \A j \in 1..Len(xs) : m <= xs[j]

\* n / d, d > 0, in lowest terms
Fraction(n, d) ==
    LET g == GCD(Abs(n), d) IN [num |-> n \div g, den |-> d \div g]

Average(xs) == Fraction(Sum(xs), Len(xs))

\* the number 0 as an average
Zero == Fraction(0, 1)

SalariesOf(employees) == [i \in 1..Len(employees) |-> employees[i]["monthly_salary"]]

(***************************************************************************)
(* salary_accounting.py:87-105.                                            *)
(***************************************************************************)
\* AllSalaries reading the first subsidiary alone
AllSalariesOfFirst(salary_data) ==
    IF salary_data = <<>> THEN <<>> ELSE SalariesOf(Head(salary_data).value)

RECURSIVE AllSalaries(_)
\* [employee['monthly_salary'] for subsidiary in subsidiaries
\*                             for employee in salary_data[subsidiary]]
AllSalaries(salary_data) ==
    IF salary_data = <<>> THEN <<>>
    ELSE SalariesOf(Head(salary_data).value) \o AllSalaries(Tail(salary_data))

\* global_company_statistics returning an empty dict for an empty roster
global_company_statisticsEmptyDict(salary_data) ==
    IF AllSalaries(salary_data) # <<>>
    THEN [average_salary |-> Average(AllSalaries(salary_data)),
          highest_salary |-> Max(AllSalaries(salary_data)),
          lowest_salary |-> Min(AllSalaries(salary_data))]
    ELSE <<>>

\* global_company_statistics taking salaries that are not positive for no data
global_company_statisticsPositiveOnly(salary_data) ==
    IF AllSalaries(salary_data) # <<>> /\ Max(AllSalaries(salary_data)) > 0
    THEN [average_salary |-> Average(AllSalaries(salary_data)),
          highest_salary |-> Max(AllSalaries(salary_data)),
          lowest_salary |-> Min(AllSalaries(salary_data))]
    ELSE [average_salary |-> Zero, highest_salary |-> 0, lowest_salary |-> 0]

global_company_statistics(salary_data) ==
    LET all_salaries == AllSalaries(salary_data)
    IN IF all_salaries # <<>>
       THEN [average_salary |-> Average(all_salaries),
             highest_salary |-> Max(all_salaries),
             lowest_salary |-> Min(all_salaries)]
       ELSE [average_salary |-> Zero, highest_salary |-> 0, lowest_salary |-> 0]

RECURSIVE StatisticsLoopKeepsEmpty(_, _, _)
\* StatisticsLoop giving a subsidiary without employees the zero record
StatisticsLoopKeepsEmpty(salary_data, s, subsidiary_employee_statistics) ==
    IF s > Len(salary_data) THEN subsidiary_employee_statistics
    ELSE LET subsidiary == salary_data[s].key
             all_employee_salaries == SalariesOf(Lookup(salary_data, subsidiary))
         IN StatisticsLoopKeepsEmpty(salary_data, s + 1,
                Store(subsidiary_employee_statistics, subsidiary,
                      IF all_employee_salaries # <<>>
                      THEN [average_salary |-> Average(all_employee_salaries),
                            highest_salary |-> Max(all_employee_salaries),
                            lowest_salary |-> Min(all_employee_salaries),
                            employee_salary |-> Lookup(salary_data, subsidiary)]
                      ELSE [average_salary |-> Zero, highest_salary |-> 0,
                            lowest_salary |-> 0, employee_salary |-> <<>>]))

RECURSIVE StatisticsLoopOverAll(_, _, _)
\* StatisticsLoop computing each subsidiary's figures over the whole company
StatisticsLoopOverAll(salary_data, s, subsidiary_employee_statistics) ==
    IF s > Len(salary_data) THEN subsidiary_employee_statistics
    ELSE LET subsidiary == salary_data[s].key
             all_employee_salaries == SalariesOf(Lookup(salary_data, subsidiary))
         IN IF all_employee_salaries # <<>>
            THEN StatisticsLoopOverAll(salary_data, s + 1,
                     Store(subsidiary_employee_statistics, subsidiary,
                           [average_salary |-> Average(AllSalaries(salary_data)),
                            highest_salary |-> Max(AllSalaries(salary_data)),
                            lowest_salary |-> Min(AllSalaries(salary_data)),
                            employee_salary |-> Lookup(salary_data, subsidiary)]))
            ELSE StatisticsLoopOverAll(salary_data, s + 1,
                                       subsidiary_employee_statistics)

(***************************************************************************)
(* salary_accounting.py:133-150.                                           *)
(***************************************************************************)
RECURSIVE StatisticsLoop(_, _, _)
StatisticsLoop(salary_data, s, subsidiary_employee_statistics) ==
    IF s > Len(salary_data) THEN subsidiary_employee_statistics
    ELSE LET subsidiary == salary_data[s].key
             all_employee_salaries == SalariesOf(Lookup(salary_data, subsidiary))
         IN IF all_employee_salaries # <<>>
            THEN StatisticsLoop(salary_data, s + 1,
                     Store(subsidiary_employee_statistics, subsidiary,
                           [average_salary |-> Average(all_employee_salaries),
                            highest_salary |-> Max(all_employee_salaries),
                            lowest_salary |-> Min(all_employee_salaries),
                            employee_salary |-> Lookup(salary_data, subsidiary)]))
            ELSE StatisticsLoop(salary_data, s + 1, subsidiary_employee_statistics)

subsidiary_company_statistics(salary_data) == StatisticsLoop(salary_data, 1, <<>>)

(***************************************************************************)
(* The rosters load_employee_data may return (load_data.py:3-8): whatever  *)
(* employees_data.json holds.  json.load yields distinct subsidiary keys   *)
(* and fresh, unshared employee dicts.                                     *)
(***************************************************************************)
WageFields == {"hourly_rate", "weekly_hours_worked", "contract_hours"}

Fields == {"name", "job"} \cup WageFields

\* the employee dict with the keys in present
Employee(present, name, job, hourly_rate, weekly_hours_worked, contract_hours) ==
    [f \in present |->
        CASE f = "name" -> name
          [] f = "job" -> job
          [] f = "hourly_rate" -> hourly_rate
          [] f = "weekly_hours_worked" -> weekly_hours_worked
          [] f = "contract_hours" -> contract_hours]

SubsidiaryNames == {"TechCorp", "DesignWorks", "ProjectLead"}

\* the orders in which at most MaxSubsidiaries distinct subsidiaries may appear
KeyOrders ==
    {ks \in SeqsUpTo(SubsidiaryNames, MaxSubsidiaries) :
        \A i, j \in 1..Len(ks) : i # j => ks[i] # ks[j]}

\* the ways to deal m employees, in order, to n subsidiaries: c[i] is the number
\* of employees of the first i subsidiaries
Cuts(n, m) ==
    IF n = 0 THEN (IF m = 0 THEN {<<>>} ELSE {})
    ELSE {c \in [1..n -> 0..m] :
             c[n] = m /\ \A i \in 1..(n - 1) : c[i] <= c[i + 1]}

\* the roster of the subsidiaries ks, staffed with the employees staff cut at c
Roster(ks, staff, c) ==
    [i \in 1..Len(ks) |->
        [key |-> ks[i],
         value |-> SubSeq(staff, (IF i = 1 THEN 0 ELSE c[i - 1]) + 1, c[i])]]

\* Wages of the pipeline rosters: the specification's scenarios (20 per hour,
\* 35 or 45 hours worked, 40 contracted), an absent rate, a negative rate.
PipelineEmployees ==
    {Employee(Fields, n, "dev", 20 * Unit, w, 40 * Unit) :
        n \in {"Ann", "Bob"}, w \in {35 * Unit, 45 * Unit}}
    \cup {Employee(Fields \ {"hourly_rate"}, n, "dev", 0, 35 * Unit, 40 * Unit) :
        n \in {"Ann", "Bob"}}
    \cup {Employee(Fields, n, "ops", -3, 6, 4) : n \in {"Ann", "Bob"}}

\* Employees of the rosters that are calculated twice: those of the pipeline,
\* and employees whose record already holds a monthly_salary (7) when loaded.
RepeatEmployees ==
    PipelineEmployees
    \cup {Update(Employee(Fields, "Ann", "dev", 20 * Unit, w, 40 * Unit),
                 "monthly_salary", 7 * SalaryScale) : w \in {35 * Unit, 45 * Unit}}

\* Wages of the single-employee rosters: every multiple of 1/Unit up to
\* MaxWage/Unit in size, and those of the specification's scenarios.
WageRange == (-MaxWage)..MaxWage

\* every subset of the five input keys may be present
WageEmployees ==
    {Employee(present, "Ann", "dev", r, w, c) :
        present \in SUBSET Fields,
        r \in WageRange \cup {20 * Unit},
        w \in WageRange \cup {35 * Unit, 45 * Unit},
        c \in WageRange \cup {40 * Unit}}

SingleEmployeeRosters ==
    {<<[key |-> "TechCorp", value |-> <<e>>]>> : e \in WageEmployees}

(***************************************************************************)
(* main.py:6-14.                                                           *)
(***************************************************************************)
Init ==
    /\ pc = "start"
    /\ employee_data = <<>>
    /\ global_employee_salaries = <<>>
    /\ global_statistics = <<>>
    /\ subsidiary_statistics = <<>>

\* main.py:8
LoadEmployeeData ==
    /\ pc = "start"
    /\ \E ks \in KeyOrders, staff \in SeqsUpTo(PipelineEmployees, MaxEmployees) :
           \E c \in Cuts(Len(ks), Len(staff)) :
               employee_data' = Roster(ks, staff, c)
    /\ pc' = "loaded"
    /\ UNCHANGED <<global_employee_salaries, global_statistics, subsidiary_statistics>>

\* main.py:10; an uncaught KeyError ends the program
CalculateMonthlySalaries ==
    /\ pc = "loaded"
    /\ LET call == calculate_monthly_salaries(employee_data)
       IN /\ employee_data' = call.employee_data
          /\ global_employee_salaries' =
                 IF call.raised THEN global_employee_salaries ELSE call.result
          /\ pc' = IF call.raised THEN "raised" ELSE "calculated"
    /\ UNCHANGED <<global_statistics, subsidiary_statistics>>

\* main.py:12
GlobalCompanyStatistics ==
    /\ pc = "calculated"
    /\ global_statistics' = global_company_statistics(global_employee_salaries)
    /\ pc' = "global"
    /\ UNCHANGED <<employee_data, global_employee_salaries, subsidiary_statistics>>

\* main.py:14
SubsidiaryCompanyStatistics ==
    /\ pc = "global"
    /\ subsidiary_statistics' = subsidiary_company_statistics(global_employee_salaries)
    /\ pc' = "subsidiary"
    /\ UNCHANGED <<employee_data, global_employee_salaries, global_statistics>>

\* main.py:8, on a file that holds one subsidiary with one employee
LoadEmployeeRecord ==
    /\ pc = "start"
    /\ employee_data' \in SingleEmployeeRosters
    /\ pc' = "loaded"
    /\ UNCHANGED <<global_employee_salaries, global_statistics, subsidiary_statistics>>

Next ==
    \/ LoadEmployeeData
    \/ CalculateMonthlySalaries
    \/ GlobalCompanyStatistics
    \/ SubsidiaryCompanyStatistics

Spec == Init /\ [][Next]_vars

NextWages ==
    \/ LoadEmployeeRecord
    \/ CalculateMonthlySalaries
    \/ GlobalCompanyStatistics
    \/ SubsidiaryCompanyStatistics

\* the pipeline on the single-employee rosters, over the whole range of wages
SpecWages == Init /\ [][NextWages]_vars

\* main.py:8, on a file whose records may hold a monthly_salary already
LoadAnnotatedData ==
    /\ pc = "start"
    /\ \E ks \in KeyOrders, staff \in SeqsUpTo(RepeatEmployees, MaxEmployees) :
           \E c \in Cuts(Len(ks), Len(staff)) :
               employee_data' = Roster(ks, staff, c)
    /\ pc' = "loaded"
    /\ UNCHANGED <<global_employee_salaries, global_statistics, subsidiary_statistics>>

\* a second call of calculate_monthly_salaries on the roster the first call left
CalculateMonthlySalariesAgain ==
    /\ pc = "calculated"
    /\ LET call == calculate_monthly_salaries(employee_data)
       IN /\ employee_data' = call.employee_data
          /\ global_employee_salaries' =
                 IF call.raised THEN global_employee_salaries ELSE call.result
          /\ pc' = IF call.raised THEN "raised" ELSE "recalculated"
    /\ UNCHANGED <<global_statistics, subsidiary_statistics>>

NextRepeat ==
    \/ LoadAnnotatedData
    \/ CalculateMonthlySalaries
    \/ CalculateMonthlySalariesAgain

\* calculate_monthly_salaries called twice on the same roster object
SpecRepeat == Init /\ [][NextRepeat]_vars

(***************************************************************************)
(* Vocabulary of the properties.                                           *)
(***************************************************************************)
\* calculate_monthly_salaries has returned
Calculated == pc \in {"calculated", "global", "subsidiary"}

\* the places <<s, i>> of the roster's employee records
Places ==
    UNION {{<<s, i>> : i \in 1..Len(employee_data[s].value)} :
              s \in 1..Len(employee_data)}

RawRecord(p) == employee_data[p[1]].value[p[2]]

\* the monthly_salary the calculator returned for the record at place p
SalaryAt(p) == global_employee_salaries[p[1]].value[p[2]]["monthly_salary"]

\* m = floor(n / d), m = ceil(n / d), m = n / d truncated toward zero (d > 0)
IsFloor(m, n, d) == m * d <= n /\ n < (m + 1) * d
IsCeil(m, n, d) == (m - 1) * d < n /\ n <= m * d
IsTruncation(m, n, d) == IF n >= 0 THEN IsFloor(m, n, d) ELSE IsCeil(m, n, d)

HasWages(e) == WageFields \subseteq DOMAIN e

\* weekly_hours_worked * hourly_rate * 4, as a numerator over Unit * Unit
PlainPay(e) == e["weekly_hours_worked"] * e["hourly_rate"] * 4

\* (contract_hours*hourly_rate + (weekly_hours_worked-contract_hours)*hourly_rate*1.5) * 4,
\* as a numerator over 2 * Unit * Unit
OvertimePay(e) ==
    (2 * e["contract_hours"] * e["hourly_rate"]
       + 3 * (e["weekly_hours_worked"] - e["contract_hours"]) * e["hourly_rate"]) * 4

NoOvertime(e) == HasWages(e) /\ e["weekly_hours_worked"] <= e["contract_hours"]
Overtime(e) == HasWages(e) /\ e["weekly_hours_worked"] > e["contract_hours"]

(***************************************************************************)
(* C1 as stated: for every employee record with weekly_hours_worked <=     *)
(* contract_hours, monthly_salary = floor(weekly_hours_worked *            *)
(* hourly_rate * 4).  Fails on a negative, non-integer product.            *)
(***************************************************************************)
C1_FloorWithoutOvertime ==
    Calculated =>
        \A p \in Places :
            NoOvertime(RawRecord(p)) =>
                IsFloor(SalaryAt(p), PlainPay(RawRecord(p)), Unit * Unit)

(***************************************************************************)
(* C1 amended: for every employee record with weekly_hours_worked <=       *)
(* contract_hours, monthly_salary is weekly_hours_worked * hourly_rate * 4 *)
(* truncated toward zero: its floor when the product is >= 0 (as for all   *)
(* non-negative inputs), its ceiling when it is negative.                  *)
(***************************************************************************)
C1_TruncationWithoutOvertime ==
    Calculated =>
        \A p \in Places :
            NoOvertime(RawRecord(p)) =>
                IsTruncation(SalaryAt(p), PlainPay(RawRecord(p)), Unit * Unit)

\* the scenario of C1: 20 per hour, 35 hours worked, 40 contracted, paid 2800
C1_Witness ==
    /\ Calculated
    /\ \E p \in Places :
        /\ NoOvertime(RawRecord(p))
        /\ RawRecord(p)["hourly_rate"] = 20 * Unit
        /\ RawRecord(p)["weekly_hours_worked"] = 35 * Unit
        /\ RawRecord(p)["contract_hours"] = 40 * Unit
        /\ SalaryAt(p) = 2800

(***************************************************************************)
(* C2 as stated: for every employee record with weekly_hours_worked >      *)
(* contract_hours, monthly_salary = floor((contract_hours*hourly_rate +    *)
(* (weekly_hours_worked-contract_hours)*hourly_rate*1.5) * 4).  Fails on a *)
(* negative, non-integer value.                                            *)
(***************************************************************************)
C2_FloorWithOvertime ==
    Calculated =>
        \A p \in Places :
            Overtime(RawRecord(p)) =>
                IsFloor(SalaryAt(p), OvertimePay(RawRecord(p)), 2 * Unit * Unit)

(***************************************************************************)
(* C2 amended: for every employee record with weekly_hours_worked >        *)
(* contract_hours, monthly_salary is (contract_hours*hourly_rate +         *)
(* (weekly_hours_worked-contract_hours)*hourly_rate*1.5) * 4 truncated     *)
(* toward zero: its floor when the value is >= 0 (as for all non-negative  *)
(* inputs), its ceiling when it is negative.                               *)
(***************************************************************************)
C2_TruncationWithOvertime ==
    Calculated =>
        \A p \in Places :
            Overtime(RawRecord(p)) =>
                IsTruncation(SalaryAt(p), OvertimePay(RawRecord(p)), 2 * Unit * Unit)

\* the scenario of C2: 20 per hour, 45 hours worked, 40 contracted, paid 3800
C2_Witness ==
    /\ Calculated
    /\ \E p \in Places :
        /\ Overtime(RawRecord(p))
        /\ RawRecord(p)["hourly_rate"] = 20 * Unit
        /\ RawRecord(p)["weekly_hours_worked"] = 45 * Unit
        /\ RawRecord(p)["contract_hours"] = 40 * Unit
        /\ SalaryAt(p) = 3800

(***************************************************************************)
(* Vocabulary of the statistics' properties.                               *)
(***************************************************************************)
GlobalDone == pc \in {"global", "subsidiary"}
SubsidiaryDone == pc = "subsidiary"

\* the salaries of the salary map's entry e, and of the whole salary map
EntrySalaries(e) == [i \in 1..Len(e.value) |-> e.value[i]["monthly_salary"]]

SalaryBag ==
    UNION {{<<s, i, global_employee_salaries[s].value[i]["monthly_salary"]>> :
                i \in 1..Len(global_employee_salaries[s].value)} :
              s \in 1..Len(global_employee_salaries)}

NoEmployees == \A s \in 1..Len(global_employee_salaries) :
                   global_employee_salaries[s].value = <<>>

\* lowest_salary <= average_salary <= highest_salary of a statistics record
Ordered(st) ==
    /\ st.lowest_salary * st.average_salary.den <= st.average_salary.num
    /\ st.average_salary.num <= st.highest_salary * st.average_salary.den

AllZero(st) ==
    /\ st.average_salary.num = 0
    /\ st.highest_salary = 0
    /\ st.lowest_salary = 0

\* the salary map's entries that have employees, and the entry of key k
Staffed == {s \in 1..Len(global_employee_salaries) :
               global_employee_salaries[s].value # <<>>}

EntryOf(k) ==
    global_employee_salaries[
        CHOOSE s \in 1..Len(global_employee_salaries) :
            global_employee_salaries[s].key = k]

StatKeys == {subsidiary_statistics[t].key : t \in 1..Len(subsidiary_statistics)}

(***************************************************************************)
(* C3: for every non-empty salary set, in the global statistics and in     *)
(* each entry of the subsidiary statistics, lowest_salary <=               *)
(* average_salary <= highest_salary.                                       *)
(***************************************************************************)
C3_AverageBetweenLowestAndHighest ==
    /\ (GlobalDone /\ ~NoEmployees) => Ordered(global_statistics)
    /\ SubsidiaryDone =>
           \A t \in 1..Len(subsidiary_statistics) :
               Ordered(subsidiary_statistics[t].value)

\* both statistics are out and the global average lies strictly between
C3_Witness ==
    /\ SubsidiaryDone
    /\ ~NoEmployees
    /\ subsidiary_statistics # <<>>
    /\ global_statistics.lowest_salary * global_statistics.average_salary.den
           < global_statistics.average_salary.num
    /\ global_statistics.average_salary.num
           < global_statistics.highest_salary * global_statistics.average_salary.den

(***************************************************************************)
(* C4: when the salary map has no employees anywhere (no subsidiaries, or  *)
(* only empty lists), global_company_statistics returns average 0,         *)
(* highest 0, lowest 0 and subsidiary_company_statistics returns an empty  *)
(* mapping.                                                                *)
(***************************************************************************)
C4_EmptyRosterStatistics ==
    /\ (GlobalDone /\ NoEmployees) =>
           /\ DOMAIN global_statistics =
                  {"average_salary", "highest_salary", "lowest_salary"}
           /\ AllZero(global_statistics)
    /\ (SubsidiaryDone /\ NoEmployees) => subsidiary_statistics = <<>>

\* both statistics are out for a roster of two subsidiaries without employees
C4_Witness ==
    /\ SubsidiaryDone
    /\ Len(global_employee_salaries) = 2
    /\ NoEmployees
    /\ AllZero(global_statistics)
    /\ subsidiary_statistics = <<>>

(***************************************************************************)
(* C5: the keys of the subsidiary statistics are exactly the subsidiaries  *)
(* of the salary map that have at least one employee.                      *)
(***************************************************************************)
C5_StatisticsKeysAreStaffedSubsidiaries ==
    SubsidiaryDone =>
        /\ StatKeys = {global_employee_salaries[s].key : s \in Staffed}
        /\ Len(subsidiary_statistics) = Cardinality(Staffed)

\* one subsidiary with employees is in the statistics, an empty one is not
C5_Witness ==
    /\ SubsidiaryDone
    /\ Len(subsidiary_statistics) = 1
    /\ Len(global_employee_salaries) = 2
    /\ \E s \in 1..2 : global_employee_salaries[s].value = <<>>

(***************************************************************************)
(* C6 as stated: calculate_monthly_salaries leaves the roster passed in    *)
(* as it was before the call.                                              *)
(***************************************************************************)
C6_RosterUnchangedByCalculation ==
    [][CalculateMonthlySalaries => employee_data' = employee_data]_vars

(***************************************************************************)
(* C7 as stated: in every statistics record, global or per subsidiary,     *)
(* average, highest and lowest are all 0 only when the salary set is       *)
(* empty.  Fails on a non-empty set of salaries that are all 0.            *)
(***************************************************************************)
C7_AllZeroOnlyWhenEmpty ==
    /\ (GlobalDone /\ AllZero(global_statistics)) => NoEmployees
    /\ SubsidiaryDone =>
           \A t \in 1..Len(subsidiary_statistics) :
               AllZero(subsidiary_statistics[t].value) =>
                   EntryOf(subsidiary_statistics[t].key).value = <<>>

(***************************************************************************)
(* C7 amended: in every statistics record, global or per subsidiary,       *)
(* average, highest and lowest are all 0 only when the salary set is empty *)
(* or every salary in it is 0; a set with a nonzero salary never yields    *)
(* the all-zero record.                                                    *)
(***************************************************************************)
C7_AllZeroOnlyWhenNoNonzeroSalary ==
    /\ (GlobalDone /\ AllZero(global_statistics)) =>
           \A b \in SalaryBag : b[3] = 0
    /\ SubsidiaryDone =>
           \A t \in 1..Len(subsidiary_statistics) :
               AllZero(subsidiary_statistics[t].value) =>
                   LET xs == EntrySalaries(EntryOf(subsidiary_statistics[t].key))
                   IN \A i \in 1..Len(xs) : xs[i] = 0

\* all-zero records, global and per subsidiary, of employees who are paid 0
C7_Witness ==
    /\ SubsidiaryDone
    /\ ~NoEmployees
    /\ AllZero(global_statistics)
    /\ \E t \in 1..Len(subsidiary_statistics) :
           AllZero(subsidiary_statistics[t].value)

(***************************************************************************)
(* C8: the calculator's output has the roster's subsidiary keys, and for   *)
(* every subsidiary a list of the input list's length whose i-th entry     *)
(* carries the name and the job of the i-th input record.                  *)
(***************************************************************************)
C8_OneSalaryPerRecord ==
    Calculated =>
        /\ {global_employee_salaries[s].key : s \in 1..Len(global_employee_salaries)}
               = {employee_data[s].key : s \in 1..Len(employee_data)}
        /\ Len(global_employee_salaries) = Len(employee_data)
        /\ \A s \in 1..Len(employee_data) :
               LET input == employee_data[s].value
                   output == EntryOf(employee_data[s].key).value
               IN /\ Len(output) = Len(input)
                  /\ \A i \in 1..Len(input) :
                         /\ DOMAIN output[i] = {"name", "job", "monthly_salary"}
                         /\ output[i]["name"] = input[i]["name"]
                         /\ output[i]["job"] = input[i]["job"]

\* a subsidiary of two employees of different names, and an empty one
C8_Witness ==
    /\ Calculated
    /\ \E s, t \in 1..Len(employee_data) :
           /\ Len(employee_data[s].value) = 2
           /\ employee_data[s].value[1]["name"] # employee_data[s].value[2]["name"]
           /\ Len(EntryOf(employee_data[s].key).value) = 2
           /\ employee_data[t].value = <<>>
           /\ EntryOf(employee_data[t].key).value = <<>>

(***************************************************************************)
(* C9: calculate_monthly_salaries does not raise on a record for lack of   *)
(* hourly_rate, weekly_hours_worked or contract_hours: each absent field   *)
(* counts as 0 and the salary formula is applied to the resulting values.  *)
(***************************************************************************)
WageOrZero(e, f) == IF f \in DOMAIN e THEN e[f] ELSE 0

\* the salary formula on rate r, hours w and contract c, over 2 * Unit * Unit
FormulaPay(r, w, c) ==
    IF w <= c THEN 2 * w * r * 4 ELSE (2 * c * r + 3 * (w - c) * r) * 4

C9_AbsentWagesCountAsZero ==
    /\ pc = "raised" =>
           \E p \in Places : ~({"name", "job"} \subseteq DOMAIN RawRecord(p))
    /\ Calculated =>
           \A p \in Places :
               IsTruncation(SalaryAt(p),
                            FormulaPay(WageOrZero(RawRecord(p), "hourly_rate"),
                                       WageOrZero(RawRecord(p), "weekly_hours_worked"),
                                       WageOrZero(RawRecord(p), "contract_hours")),
                            2 * Unit * Unit)

\* no contract_hours: the hours worked are all paid as overtime
C9_Witness ==
    /\ Calculated
    /\ \E p \in Places :
           /\ DOMAIN RawRecord(p) \cap WageFields = {"hourly_rate", "weekly_hours_worked"}
           /\ RawRecord(p)["hourly_rate"] = 20 * Unit
           /\ RawRecord(p)["weekly_hours_worked"] = 35 * Unit
           /\ SalaryAt(p) = 4200

(***************************************************************************)
(* C10: monthly_salary is the computed value truncated toward zero: the    *)
(* integer of the largest magnitude that does not exceed the value's, with *)
(* the value's sign; a negative value is rounded up, not down.             *)
(***************************************************************************)
\* the value line 52 stores in the record and line 57 passes to int()
ComputedAt(p) == RawRecord(p)["monthly_salary"]

C10_SalaryTruncatedTowardZero ==
    Calculated =>
        \A p \in Places :
            /\ Abs(SalaryAt(p)) * SalaryScale <= Abs(ComputedAt(p))
            /\ Abs(ComputedAt(p)) < (Abs(SalaryAt(p)) + 1) * SalaryScale
            /\ SalaryAt(p) * ComputedAt(p) >= 0

\* a negative, non-integer value whose salary is its ceiling
C10_Witness ==
    /\ Calculated
    /\ \E p \in Places :
           /\ ComputedAt(p) < -SalaryScale
           /\ ComputedAt(p) % SalaryScale # 0
           /\ SalaryAt(p) * SalaryScale > ComputedAt(p)
           /\ (SalaryAt(p) - 1) * SalaryScale < ComputedAt(p)

(***************************************************************************)
(* C11: for a salary map with at least one employee, the global record has *)
(* highest_salary the maximum, lowest_salary the minimum and               *)
(* average_salary sum / count of the monthly salaries of all employees of  *)
(* all subsidiaries together, duplicates counted; empty subsidiaries       *)
(* contribute nothing.                                                     *)
(***************************************************************************)
RECURSIVE BagSum(_)
\* the sum of the salaries of a set of <<subsidiary, place, salary>>
BagSum(B) ==
    IF B = {} THEN 0
    ELSE LET b == CHOOSE x \in B : TRUE IN b[3] + BagSum(B \ {b})

\* st holds the maximum, the minimum and the mean of the salaries in B
StatisticsOf(st, B) ==
    /\ \E b \in B : b[3] = st.highest_salary
    /\ \A b \in B : b[3] <= st.highest_salary
    /\ \E b \in B : b[3] = st.lowest_salary
    /\ \A b \in B : st.lowest_salary <= b[3]
    /\ st.average_salary.den > 0
    /\ st.average_salary.num * Cardinality(B) = BagSum(B) * st.average_salary.den

C11_GlobalStatisticsOverAllEmployees ==
    (GlobalDone /\ ~NoEmployees) => StatisticsOf(global_statistics, SalaryBag)

\* a subsidiary paying 2800 and 3800 and an empty one: 3300, 3800, 2800
C11_Witness ==
    /\ GlobalDone
    /\ Len(global_employee_salaries) = 2
    /\ \E s, t \in 1..2 :
           /\ global_employee_salaries[s].value = <<>>
           /\ Len(global_employee_salaries[t].value) = 2
           /\ global_employee_salaries[t].value[1]["monthly_salary"] = 2800
           /\ global_employee_salaries[t].value[2]["monthly_salary"] = 3800
    /\ global_statistics.average_salary = [num |-> 3300, den |-> 1]
    /\ global_statistics.highest_salary = 3800
    /\ global_statistics.lowest_salary = 2800

(***************************************************************************)
(* C12: for every subsidiary with at least one employee, its entry of the  *)
(* subsidiary statistics has average, highest and lowest of that           *)
(* subsidiary's monthly salaries alone, and its employee_salary is the     *)
(* subsidiary's list as the calculator produced it: the same elements in   *)
(* the same order.                                                         *)
(***************************************************************************)
\* the salaries of the salary map's s-th subsidiary
SubsidiaryBag(s) ==
    {<<s, i, global_employee_salaries[s].value[i]["monthly_salary"]>> :
        i \in 1..Len(global_employee_salaries[s].value)}

C12_SubsidiaryStatisticsOverOwnEmployees ==
    SubsidiaryDone =>
        \A s \in Staffed :
            \E t \in 1..Len(subsidiary_statistics) :
                /\ subsidiary_statistics[t].key = global_employee_salaries[s].key
                /\ StatisticsOf(subsidiary_statistics[t].value, SubsidiaryBag(s))
                /\ subsidiary_statistics[t].value.employee_salary
                       = global_employee_salaries[s].value

\* salaries 2800 and 3800, in that order: 3300, 3800, 2800 and the list as it was
C12_Witness ==
    /\ SubsidiaryDone
    /\ \E t \in 1..Len(subsidiary_statistics) :
           LET st == subsidiary_statistics[t].value
           IN /\ Len(st.employee_salary) = 2
              /\ st.employee_salary[1]["monthly_salary"] = 2800
              /\ st.employee_salary[2]["monthly_salary"] = 3800
              /\ st.employee_salary[1]["name"] # st.employee_salary[2]["name"]
              /\ st.average_salary = [num |-> 3300, den |-> 1]
              /\ st.highest_salary = 3800
              /\ st.lowest_salary = 2800

(***************************************************************************)
(* C13: the keys of the calculator's output appear in the roster's order,  *)
(* and the keys of the subsidiary statistics appear in that same order     *)
(* with only the empty subsidiaries removed.                               *)
(***************************************************************************)
\* the place of subsidiary k in the roster
PlaceOf(k) == CHOOSE s \in 1..Len(employee_data) : employee_data[s].key = k

C13_SubsidiaryOrderPreserved ==
    /\ Calculated =>
           /\ Len(global_employee_salaries) = Len(employee_data)
           /\ \A s \in 1..Len(employee_data) :
                  global_employee_salaries[s].key = employee_data[s].key
    /\ SubsidiaryDone =>
           /\ \A s \in 1..Len(employee_data) :
                  employee_data[s].value # <<>> =>
                      \E t \in 1..Len(subsidiary_statistics) :
                          subsidiary_statistics[t].key = employee_data[s].key
           /\ \A t \in 1..Len(subsidiary_statistics) :
                  /\ \E s \in 1..Len(employee_data) :
                         /\ employee_data[s].key = subsidiary_statistics[t].key
                         /\ employee_data[s].value # <<>>
                  /\ \A u \in 1..Len(subsidiary_statistics) :
                         t < u => PlaceOf(subsidiary_statistics[t].key)
                                      < PlaceOf(subsidiary_statistics[u].key)

\* two staffed subsidiaries, TechCorp before DesignWorks, kept in that order
C13_Witness ==
    /\ SubsidiaryDone
    /\ Len(employee_data) = 2
    /\ employee_data[1].key = "TechCorp"
    /\ employee_data[2].key = "DesignWorks"
    /\ Len(subsidiary_statistics) = 2
    /\ subsidiary_statistics[1].key = "TechCorp"
    /\ subsidiary_statistics[2].key = "DesignWorks"
    /\ global_employee_salaries[1].key = "TechCorp"

(***************************************************************************)
(* C14: a second call of calculate_monthly_salaries on the roster as the   *)
(* first call left it returns an output equal to the first call's and      *)
(* leaves the roster as the first call left it: the monthly_salary written *)
(* into the records does not feed back into the salary.                    *)
(***************************************************************************)
C14_SecondCallRepeatsFirst ==
    [][CalculateMonthlySalariesAgain =>
           /\ pc' = "recalculated"
           /\ global_employee_salaries' = global_employee_salaries
           /\ employee_data' = employee_data]_vars

\* after the second call: two annotated records, one paid a whole salary and
\* one whose salary int() cut
C14_Witness ==
    /\ pc = "recalculated"
    /\ \E p, q \in Places :
           /\ p # q
           /\ RawRecord(p)["monthly_salary"] = 2800 * SalaryScale
           /\ SalaryAt(p) = 2800
           /\ RawRecord(q)["monthly_salary"] % SalaryScale # 0
           /\ SalaryAt(q) * SalaryScale # RawRecord(q)["monthly_salary"]

====
